---------------------------- MODULE Spec2Model ----------------------------
(***************************************************************************)
(* Model of src/main.rs: a Bevy application that spawns one free camera,   *)
(* a static scene and three text nodes at startup, and then runs, every    *)
(* frame, update_camera_settings (key-driven tuning of the camera) and     *)
(* update_text (the status overlay).                                       *)
(*                                                                         *)
(* f32 values are modelled by their IEEE-754 binary32 bit pattern: a       *)
(* non-negative float is the integer of its 32 bits, a negative float is   *)
(* the negation of the bits of its magnitude.  Integer order is then the   *)
(* order of the floats.  NaN never arises from the operations used.        *)
(***************************************************************************)
EXTENDS Integers, Sequences, FiniteSets, TLC

-----------------------------------------------------------------------------
(* binary32 arithmetic, round to nearest, ties to even *)

F32Inf == 2139095040

F32HiddenBit == 8388608

F32CarryBit == 16777216

Pow2(n) == 2 ^ n

\* biased exponent of a magnitude; subnormals share exponent 1
F32Exp(x) == IF x \div F32HiddenBit = 0 THEN 1 ELSE x \div F32HiddenBit

\* 24-bit significand of a magnitude: value = F32Sig * 2^(F32Exp - 150)
F32Sig(x) ==
    IF x \div F32HiddenBit = 0 THEN x ELSE (x % F32HiddenBit) + F32HiddenBit

\* shift right keeping a sticky bit for everything shifted out
ShiftRightSticky(v, d) ==
    IF d = 0 THEN v
    ELSE IF d >= 30 THEN (IF v = 0 THEN 0 ELSE 1)
    ELSE LET q == v \div Pow2(d)
             r == v % Pow2(d)
         IN  IF r = 0 THEN q ELSE (q - (q % 2)) + 1

\* encode exponent e and significand s carrying three extra low bits
F32Round(e, s) ==
    LET q  == s \div 8
        r  == s % 8
        up == r > 4 \/ (r = 4 /\ q % 2 = 1)
        q1 == IF up THEN q + 1 ELSE q
        e2 == IF q1 = F32CarryBit THEN e + 1 ELSE e
        q2 == IF q1 = F32CarryBit THEN F32HiddenBit ELSE q1
    IN  IF e2 >= 255 THEN F32Inf
        ELSE IF q2 < F32HiddenBit THEN q2
        ELSE e2 * F32HiddenBit + (q2 - F32HiddenBit)

\* sum of two magnitudes
F32AddMag(a, b) ==
    LET hi == IF a >= b THEN a ELSE b
        lo == IF a >= b THEN b ELSE a
        e  == F32Exp(hi)
        s  == F32Sig(hi) * 8 + ShiftRightSticky(F32Sig(lo) * 8, e - F32Exp(lo))
    IN  IF hi >= F32Inf THEN F32Inf
        ELSE IF s >= 8 * F32CarryBit
             THEN F32Round(e + 1, ShiftRightSticky(s, 1))
             ELSE F32Round(e, s)

RECURSIVE F32Normalize(_, _)
\* shift left until the hidden bit is set or the exponent reaches 1
F32Normalize(e, s) ==
    IF s >= 8 * F32HiddenBit \/ e = 1 THEN F32Round(e, s)
    ELSE F32Normalize(e - 1, s * 2)

\* difference of two magnitudes, a >= b
F32SubMag(a, b) ==
    LET e == F32Exp(a)
        s == F32Sig(a) * 8 - ShiftRightSticky(F32Sig(b) * 8, e - F32Exp(b))
    IN  IF a >= F32Inf THEN F32Inf
        ELSE IF s = 0 THEN 0
        ELSE F32Normalize(e, s)

F32Abs(x) == IF x < 0 THEN -x ELSE x

\* x + y in f32
F32Add(x, y) ==
    IF (x >= 0) = (y >= 0)
    THEN (IF x >= 0 THEN F32AddMag(x, y) ELSE -F32AddMag(-x, -y))
    ELSE IF F32Abs(x) >= F32Abs(y)
         THEN (IF x >= 0 THEN F32SubMag(x, -y) ELSE -F32SubMag(-x, y))
         ELSE (IF y >= 0 THEN F32SubMag(y, -x) ELSE -F32SubMag(-y, x))

\* x - y in f32
F32Sub(x, y) == F32Add(x, -y)

\* f32::max
F32Max(x, y) == IF x >= y THEN x ELSE y


-----------------------------------------------------------------------------
(* `{:.0N}` formatting of an f32: the exact value rounded to N decimals *)

\* round(|x| * k) to the nearest integer, ties to even, k a power of ten
ScaledRound(x, k) ==
    LET sig == F32Sig(F32Abs(x))
        s   == 150 - F32Exp(F32Abs(x))
    IN  IF sig = 0 \/ s >= 43 THEN 0
        ELSE IF s >= 12
        THEN LET t   == s - 12
                 lo  == (sig % 4096) * k
                 big == (sig \div 4096) * k + lo \div 4096
                 f   == lo % 4096
                 q   == big \div Pow2(t)
                 r   == big % Pow2(t)
                 up  == IF t = 0
                        THEN f > 2048 \/ (f = 2048 /\ q % 2 = 1)
                        ELSE r > Pow2(t - 1)
                             \/ (r = Pow2(t - 1) /\ (f > 0 \/ q % 2 = 1))
             IN  IF up THEN q + 1 ELSE q
        ELSE IF s >= 1
        THEN LET a  == sig \div Pow2(s)
                 b  == (sig % Pow2(s)) * k
                 q  == a * k + b \div Pow2(s)
                 r  == b % Pow2(s)
                 up == r > Pow2(s - 1) \/ (r = Pow2(s - 1) /\ q % 2 = 1)
             IN  IF up THEN q + 1 ELSE q
        ELSE sig * Pow2(-s) * k

RECURSIVE PadDigits(_, _)
\* the low d decimal digits of n, zero padded
PadDigits(n, d) ==
    IF d = 0 THEN "" ELSE PadDigits(n \div 10, d - 1) \o ToString(n % 10)

\* format!("{:.0d}", x)
FormatFixed(x, d) ==
    IF F32Abs(x) >= F32Inf THEN (IF x < 0 THEN "-inf" ELSE "inf")
    ELSE LET n == ScaledRound(x, 10 ^ d)
         IN  (IF x < 0 THEN "-" ELSE "")
             \o ToString(n \div (10 ^ d)) \o "." \o PadDigits(n % (10 ^ d), d)

\* format!("{}", b) of a bool
FormatBool(b) == IF b THEN "true" ELSE "false"

-----------------------------------------------------------------------------
(* bounds of the exploration *)

\* frames of the full program that are explored
MaxFrames == 3

\* furthest the camera travels along X, in whole steps of the controller
MaxPose == 2

\* consecutive frames of a held B that are counted
MaxHold == 3

\* consecutive increase-only frames that form one measured run
MaxRamp == 3

\* increase steps above the startup value explored by the tuning loop
MaxAbove == 1

-----------------------------------------------------------------------------
(* f32 literals of the source *)

\* 0.2
SensitivityInit == 1045220557

\* 25.0
FrictionInit == 1103626240

\* 3.0
WalkSpeedInit == 1077936128

\* 9.0
RunSpeedInit == 1091567616

\* FreeCamera::default().scroll_factor, 0.5
ScrollFactorDefault == 1056964608

\* 0.005
SensitivityStep == 1000593162

\* 0.005
SensitivityFloor == 1000593162

\* 0.2
FrictionStep == 1045220557

\* 0.0
FrictionFloor == 0

\* 0.02
ScrollStep == 1017370378

\* 0.02
ScrollFloor == 1017370378

Vec3Zero == <<0, 0, 0>>

-----------------------------------------------------------------------------
(* state *)

VARIABLES
    schedule,      \* the schedule being run: "Startup", "PostStartup", "Update"
    ran,           \* systems that have run in the current pass of the schedule
    frame,         \* frames started so far
    commands,      \* deferred spawn commands, applied when the pass ends
    cameras,       \* entities with FreeCamera and FreeCameraState
    scene,         \* entities with Mesh3d, MeshMaterial3d and Transform
    lights,        \* entities with PointLight
    texts,         \* entities with Text
    meshes,        \* Assets<Mesh>; a handle is an index
    materials,     \* Assets<StandardMaterial>; a handle is an index
    pressed,       \* ButtonInput<KeyCode>: keys held in this frame
    just_pressed,  \* ButtonInput<KeyCode>: keys newly pressed in this frame
    panicked,      \* an unwrap() failed and the process aborted
    start,         \* observer: the cameras as they were when the frame began
    hold,          \* observer: consecutive frames B has been held
    flips,         \* observer: negations of enabled since B was last pressed
    ramp,          \* observer: consecutive increase-only frames of this run
    rampStart      \* observer: the cameras as they were when the run began

world == <<cameras, scene, lights, texts, meshes, materials>>

input == <<pressed, just_pressed>>

observers == <<start, hold, flips, ramp, rampStart>>

vars == <<schedule, ran, frame, commands, world, input, panicked, observers>>

KeyCodes == {"KeyZ", "KeyX", "KeyC", "KeyV", "KeyF", "KeyG", "KeyB"}

-----------------------------------------------------------------------------
(* spawn_camera *)

\* the bundle of spawn_camera: Transform, FreeCamera and the FreeCameraState
\* that FreeCamera requires
CameraBundle ==
    [ translation   |-> <<0, 100, 0>>,
      looking_to    |-> "X",
      sensitivity   |-> SensitivityInit,
      friction      |-> FrictionInit,
      walk_speed    |-> WalkSpeedInit,
      run_speed     |-> RunSpeedInit,
      scroll_factor |-> ScrollFactorDefault,
      enabled       |-> TRUE,
      velocity      |-> Vec3Zero ]

Spawn(kind, bundle) == [kind |-> kind, bundle |-> bundle]

\* a faulty variant: spawn_camera spawns nothing
NoCameraSpawned == << >>

spawn_camera_commands == << Spawn("camera", CameraBundle) >>

(* spawn_lights *)
spawn_lights_commands ==
    << Spawn("light", [color |-> "NEUTRAL_300", shadows_enabled |-> TRUE,
                       translation |-> <<0, 4500, 0>>]) >>

-----------------------------------------------------------------------------
(* spawn_world: lengths and coordinates in hundredths of a unit *)

Cuboid(x, y, z) == [shape |-> "Cuboid", size |-> <<x, y, z>>]

\* StandardMaterial::default().uv_transform
Affine2Identity == <<"scale", 1, 1>>

ColorMaterial(c) ==
    [ base_color         |-> c,
      base_color_texture |-> "None",
      sampler            |-> "None",
      alpha_mode         |-> "Opaque",
      unlit              |-> FALSE,
      emissive           |-> "BLACK",
      uv_transform       |-> Affine2Identity ]

\* StandardMaterial { base_color_texture, alpha_mode: Blend, unlit: true,
\* ..default() } over asset_server.load(path)
TextureMaterial(path) ==
    [ base_color         |-> "WHITE",
      base_color_texture |-> path,
      sampler            |-> "Default",
      alpha_mode         |-> "Blend",
      unlit              |-> TRUE,
      emissive           |-> "BLACK",
      uv_transform       |-> Affine2Identity ]

\* a faulty variant: the floor material without its uv_transform
FloorMaterialUnscaled ==
    [ base_color         |-> "WHITE",
      base_color_texture |-> "textures/floor.png",
      sampler            |-> "MirrorRepeat",
      alpha_mode         |-> "Opaque",
      unlit              |-> FALSE,
      emissive           |-> "rgb(0.244, 0.166, 0.172)",
      uv_transform       |-> Affine2Identity ]

\* the material built inline for the floor object
FloorMaterial ==
    [ base_color         |-> "WHITE",
      base_color_texture |-> "textures/floor.png",
      sampler            |-> "MirrorRepeat",
      alpha_mode         |-> "Opaque",
      unlit              |-> FALSE,
      emissive           |-> "rgb(0.244, 0.166, 0.172)",
      uv_transform       |-> <<"scale", 20, 20>> ]

\* the material of the skydome
SkyboxMaterial == TextureMaterial("textures/skybox.png")

\* meshes.add(..), in the order of the source
WorldMeshes ==
    << Cuboid(100, 100, 100),
       [shape |-> "Plane3d", normal |-> <<0, 10000, 0>>, half_size |-> <<2000, 3500>>],
       [shape |-> "Sphere", radius |-> 50],
       Cuboid(20, 400, 300),
       Cuboid(5000, 500, 35),
       Cuboid(500, 500, 20),
       Cuboid(900, 500, 35),
       Cuboid(8000, 500, 35),
       Cuboid(200, 500, 15),
       Cuboid(100, 500, 15),
       Cuboid(500, 500, 15),
       [shape |-> "Cylinder", radius |-> 30, height |-> 500],
       [shape |-> "Circle", radius |-> 10000] >>

\* materials.add(..), in the order of the source
WorldMaterials ==
    << ColorMaterial("BLUE_700"),
       ColorMaterial("RED_950"),
       ColorMaterial("WHITE"),
       TextureMaterial("textures/marble.png"),
       TextureMaterial("textures/floor.png"),
       SkyboxMaterial,
       FloorMaterial >>

\* the handles spawn_world holds, given the assets already stored
WorldHandles(nMeshes, nMaterials) ==
    [ cube |-> nMeshes + 1, floor |-> nMeshes + 2, sphere |-> nMeshes + 3,
      wall |-> nMeshes + 4, back_wall |-> nMeshes + 5, cub_wall |-> nMeshes + 6,
      tav_wall |-> nMeshes + 7, long_wall |-> nMeshes + 8, cub_ent |-> nMeshes + 9,
      shor_ent |-> nMeshes + 10, hall_1 |-> nMeshes + 11, column |-> nMeshes + 12,
      sky |-> nMeshes + 13,
      blue_material |-> nMaterials + 1, red_material |-> nMaterials + 2,
      white_material |-> nMaterials + 3, material_handle |-> nMaterials + 4,
      flooo |-> nMaterials + 5, skybox |-> nMaterials + 6,
      floor_material |-> nMaterials + 7 ]

Identity == <<"0", "0", "0">>

\* Quat::from_euler(EulerRot::YXZEx, FRAC_PI_2, 0.0, 0.0)
RotY == <<"FRAC_PI_2", "0", "0">>

\* Quat::from_euler(EulerRot::YXZEx, 0.0, FRAC_PI_2, 0.0)
RotX == <<"0", "FRAC_PI_2", "0">>

Object(mesh, material, translation, rotation) ==
    Spawn("object", [mesh |-> mesh, material |-> material,
                     translation |-> translation, rotation |-> rotation])

\* the commands.spawn(..) calls of spawn_world, in the order of the source
spawn_world_commands(h) ==
    <<
        Object(h.floor, h.floor_material, <<0, 0, 0>>, Identity),
        Object(h.wall, h.white_material, <<-300, 200, 0>>, Identity),
        Object(h.long_wall, h.white_material, <<2000, 0, 0>>, RotY),
        Object(h.long_wall, h.white_material, <<0, 0, 0>>, RotY),
        Object(h.back_wall, h.white_material, <<0, 0, 3500>>, Identity),
        Object(h.cub_wall, h.white_material, <<1800, 0, 2700>>, Identity),
        Object(h.cub_wall, h.white_material, <<1800, 0, 2300>>, Identity),
        Object(h.cub_wall, h.white_material, <<1800, 0, 2000>>, Identity),
        Object(h.cub_wall, h.white_material, <<1800, 0, 1600>>, Identity),
        Object(h.cub_wall, h.white_material, <<1800, 0, 1400>>, Identity),
        Object(h.cub_wall, h.white_material, <<1800, 0, 900>>, Identity),
        Object(h.cub_wall, h.white_material, <<1800, 0, 500>>, Identity),
        Object(h.cub_ent, h.white_material, <<1550, 0, 2600>>, RotY),
        Object(h.cub_ent, h.white_material, <<1550, 0, 2300>>, RotY),
        Object(h.cub_ent, h.white_material, <<1550, 0, 2000>>, RotY),
        Object(h.hall_1, h.white_material, <<1550, 0, 1150>>, RotY),
        Object(h.shor_ent, h.white_material, <<1550, 0, 1300>>, RotY),
        Object(h.tav_wall, h.white_material, <<1600, 0, 0>>, Identity),
        Object(h.column, h.material_handle, <<1300, 0, 2500>>, Identity),
        Object(h.column, h.material_handle, <<1300, 0, 2400>>, Identity),
        Object(h.column, h.material_handle, <<1300, 0, 2300>>, Identity),
        Object(h.column, h.material_handle, <<1300, 0, 2200>>, Identity),
        Object(h.column, h.material_handle, <<1200, 0, 2500>>, Identity),
        Object(h.column, h.material_handle, <<1100, 0, 2500>>, Identity),
        Object(h.column, h.material_handle, <<1000, 0, 2500>>, Identity),
        Object(h.column, h.material_handle, <<900, 0, 2500>>, Identity),
        Object(h.column, h.material_handle, <<900, 0, 2400>>, Identity),
        Object(h.column, h.material_handle, <<900, 0, 2300>>, Identity),
        Object(h.column, h.material_handle, <<900, 0, 2200>>, Identity),
        Object(h.column, h.material_handle, <<1200, 0, 2400>>, Identity),
        Object(h.column, h.material_handle, <<1100, 0, 2300>>, Identity),
        Object(h.column, h.material_handle, <<1000, 0, 2200>>, Identity),
        Object(h.sky, h.skybox, <<0, 6500, 0>>, RotX)
    >>

-----------------------------------------------------------------------------
(* spawn_text *)

\* Display of FreeCamera, the text of the first node; its wording belongs to
\* the engine and nothing here reads it
FreeCameraDisplay(cam) == "FreeCamera"

InstructionsText ==
    "Z/X: decrease/increase sensitivity\n"
    \o "C/V: decrease/increase friction\n"
    \o "F/G: decrease/increase scroll factor\n"
    \o "B: enable/disable controller"

TextNode(marker, text) == [marker |-> marker, text |-> text]

spawn_text_commands(cam) ==
    << Spawn("text", TextNode("", FreeCameraDisplay(cam))),
       Spawn("text", TextNode("", InstructionsText)),
       Spawn("text", TextNode("InfoText", "")) >>

-----------------------------------------------------------------------------
(* update_camera_settings *)

\* a faulty variant: the decrease without .max(floor)
DecreaseUnclamped(v, step, floor) == F32Sub(v, step)

\* (v - step).max(floor)
DecreaseClamped(v, step, floor) == F32Max(F32Sub(v, step), floor)

\* a faulty variant: the increase clamped from above at 1.0
IncreaseCapped(v, step) ==
    LET w == F32Add(v, step)
    IN  IF w > 127 * F32HiddenBit THEN 127 * F32HiddenBit ELSE w

\* v += step
Increase(v, step) == F32Add(v, step)

\* a faulty variant: the two ifs of one field in the other order
TuneFieldIncreaseFirst(v, dec, inc, step, floor) ==
    LET u == IF inc THEN F32Add(v, step) ELSE v
    IN  IF dec THEN F32Max(F32Sub(u, step), floor) ELSE u

\* the two ifs of one field, decrease first
TuneField(v, dec, inc, step, floor) ==
    LET d == IF dec THEN DecreaseClamped(v, step, floor) ELSE v
    IN  IF inc THEN Increase(d, step) ELSE d

\* a faulty variant: input.pressed(KeyCode::KeyB)
ToggleWhileHeld(held, newly) == "KeyB" \in held

\* input.just_pressed(KeyCode::KeyB)
ToggleRequested(held, newly) == "KeyB" \in newly

\* a faulty variant: the fields are tuned only while the camera is enabled
CameraSettingsEditIfEnabled(cam, held, newly) ==
    [ cam EXCEPT
        !.sensitivity   = IF cam.enabled
                          THEN TuneField(@, "KeyZ" \in held, "KeyX" \in held,
                                         SensitivityStep, SensitivityFloor)
                          ELSE @,
        !.friction      = IF cam.enabled
                          THEN TuneField(@, "KeyC" \in held, "KeyV" \in held,
                                         FrictionStep, FrictionFloor)
                          ELSE @,
        !.scroll_factor = IF cam.enabled
                          THEN TuneField(@, "KeyF" \in held, "KeyG" \in held,
                                         ScrollStep, ScrollFloor)
                          ELSE @,
        !.enabled       = IF ToggleRequested(held, newly) THEN ~@ ELSE @ ]

\* the body of update_camera_settings on the single camera
CameraSettingsEdit(cam, held, newly) ==
    [ cam EXCEPT
        !.sensitivity   = TuneField(@, "KeyZ" \in held, "KeyX" \in held,
                                    SensitivityStep, SensitivityFloor),
        !.friction      = TuneField(@, "KeyC" \in held, "KeyV" \in held,
                                    FrictionStep, FrictionFloor),
        !.scroll_factor = TuneField(@, "KeyF" \in held, "KeyG" \in held,
                                    ScrollStep, ScrollFloor),
        !.enabled       = IF ToggleRequested(held, newly) THEN ~@ ELSE @ ]

-----------------------------------------------------------------------------
(* update_text *)

\* Vec3::length of a vector with at most one non-zero component, the only
\* velocities that arise here
Vec3Length(v) ==
    IF v[1] # 0 THEN F32Abs(v[1])
    ELSE IF v[2] # 0 THEN F32Abs(v[2])
    ELSE F32Abs(v[3])

\* the format! of update_text
InfoTextOf(cam) ==
    "Enabled: " \o FormatBool(cam.enabled)
    \o ",\nSensitivity: " \o FormatFixed(cam.sensitivity, 3)
    \o "\nFriction: " \o FormatFixed(cam.friction, 1)
    \o "\nScroll factor: " \o FormatFixed(cam.scroll_factor, 2)
    \o "\nWalk Speed: " \o FormatFixed(cam.walk_speed, 2)
    \o "\nRun Speed: " \o FormatFixed(cam.run_speed, 2)
    \o "\nSpeed: " \o FormatFixed(Vec3Length(cam.velocity), 2)

\* Query<&mut Text, With<InfoText>>
InfoTexts(ts) == {i \in DOMAIN ts : ts[i].marker = "InfoText"}

\* a faulty variant: the query without With<InfoText>, every text written
UpdateEveryText(ts, cam) ==
    [i \in DOMAIN ts |-> [ts[i] EXCEPT !.text = InfoTextOf(cam)]]

\* text.0 = format!(..) on the node the query yields
UpdateTextOn(ts, cam) ==
    [i \in DOMAIN ts |->
        IF i \in InfoTexts(ts) THEN [ts[i] EXCEPT !.text = InfoTextOf(cam)]
        ELSE ts[i]]

-----------------------------------------------------------------------------
(* the movement controller of FreeCameraPlugin, by its contract: enabled, it
   writes a velocity and a pose; disabled, it leaves both alone *)

ControllerOutcomes(cam) ==
    IF ~cam.enabled THEN {cam}
    ELSE {[cam EXCEPT !.velocity = Vec3Zero]}
         \cup (IF cam.translation[1] < MaxPose * 100
               THEN {[cam EXCEPT !.velocity = <<cam.walk_speed, 0, 0>>,
                                 !.translation[1] = @ + 100]}
               ELSE {})

-----------------------------------------------------------------------------
(* the plugins' build(): which systems each schedule holds *)

CameraPluginSystems(label) ==
    IF label = "Startup" THEN {"spawn_camera"} ELSE {}

CameraSettingsPluginSystems(label) ==
    IF label = "PostStartup" THEN {"spawn_text"}
    ELSE IF label = "Update" THEN {"update_camera_settings", "update_text"}
    ELSE {}

\* a faulty variant: spawn_world added to Update instead of Startup
ScenePluginSystemsEveryFrame(label) ==
    IF label = "Startup" THEN {"spawn_lights"}
    ELSE IF label = "Update" THEN {"spawn_world"}
    ELSE {}

ScenePluginSystems(label) ==
    IF label = "Startup" THEN {"spawn_lights", "spawn_world"} ELSE {}

\* the controller runs once in every frame; its place among the frame's
\* systems is not fixed
FreeCameraPluginSystems(label) ==
    IF label = "Update" THEN {"run_freecamera_controller"} ELSE {}

Registered(label) ==
    CameraPluginSystems(label) \cup CameraSettingsPluginSystems(label)
    \cup ScenePluginSystems(label) \cup FreeCameraPluginSystems(label)

\* systems of the current pass that have not run yet; a tuple of systems
\* without .chain() runs in any order
Pending ==
    IF panicked \/ (schedule = "Update" /\ frame = 0) THEN {}
    ELSE Registered(schedule) \ ran

\* Query::single(): Ok exactly when one entity matches
Single(entities) == Len(entities) = 1

\* the entities a sequence of spawn commands creates
BundlesOf(cmds) == [i \in 1..Len(cmds) |-> cmds[i].bundle]

\* the bundles of the queued spawns of one kind
Bundles(kind) == BundlesOf(SelectSeq(commands, LAMBDA c : c.kind = kind))

\* the queued commands are applied when the pass of the schedule ends
ApplyDeferred ==
    /\ cameras' = cameras \o Bundles("camera")
    /\ scene' = scene \o Bundles("object")
    /\ lights' = lights \o Bundles("light")
    /\ texts' = texts \o Bundles("text")
    /\ commands' = << >>

-----------------------------------------------------------------------------
(* actions *)

Init ==
    /\ schedule = "Startup"
    /\ ran = {}
    /\ frame = 0
    /\ commands = << >>
    /\ cameras = << >>
    /\ scene = << >>
    /\ lights = << >>
    /\ texts = << >>
    /\ meshes = << >>
    /\ materials = << >>
    /\ pressed = {}
    /\ just_pressed = {}
    /\ panicked = FALSE
    /\ start = << >>
    /\ hold = 0
    /\ flips = 0
    /\ ramp = 0
    /\ rampStart = << >>

spawn_camera ==
    /\ "spawn_camera" \in Pending
    /\ ran' = ran \cup {"spawn_camera"}
    /\ commands' = commands \o spawn_camera_commands
    /\ UNCHANGED <<schedule, frame, world, input, panicked, observers>>

spawn_lights ==
    /\ "spawn_lights" \in Pending
    /\ ran' = ran \cup {"spawn_lights"}
    /\ commands' = commands \o spawn_lights_commands
    /\ UNCHANGED <<schedule, frame, world, input, panicked, observers>>

spawn_world ==
    /\ "spawn_world" \in Pending
    /\ ran' = ran \cup {"spawn_world"}
    /\ meshes' = meshes \o WorldMeshes
    /\ materials' = materials \o WorldMaterials
    /\ commands' = commands
                   \o spawn_world_commands(WorldHandles(Len(meshes), Len(materials)))
    /\ UNCHANGED <<schedule, frame, cameras, scene, lights, texts, input,
                   panicked, observers>>

spawn_text ==
    /\ "spawn_text" \in Pending
    /\ ran' = ran \cup {"spawn_text"}
    /\ IF Single(cameras)
       THEN /\ commands' = commands \o spawn_text_commands(cameras[1])
            /\ UNCHANGED panicked
       ELSE /\ panicked' = TRUE
            /\ UNCHANGED commands
    /\ UNCHANGED <<schedule, frame, world, input, observers>>

\* the end of Startup and of PostStartup
EndSchedule ==
    /\ schedule \in {"Startup", "PostStartup"}
    /\ ~panicked
    /\ Pending = {}
    /\ ApplyDeferred
    /\ schedule' = IF schedule = "Startup" THEN "PostStartup" ELSE "Update"
    /\ ran' = {}
    /\ UNCHANGED <<frame, meshes, materials, input, panicked, observers>>

\* a frame begins: the previous pass ends and the input snapshot is taken
BeginFrame(keys) ==
    /\ schedule = "Update"
    /\ ~panicked
    /\ frame = 0 \/ Registered("Update") \subseteq ran
    /\ frame < MaxFrames
    /\ ApplyDeferred
    /\ frame' = frame + 1
    /\ ran' = {}
    /\ pressed' = keys
    /\ just_pressed' = keys \ pressed
    /\ start' = cameras'
    /\ hold' = IF "KeyB" \in keys
               THEN (IF hold < MaxHold THEN hold + 1 ELSE hold) ELSE 0
    /\ flips' = IF "KeyB" \in keys /\ "KeyB" \in pressed THEN flips ELSE 0
    /\ UNCHANGED <<schedule, meshes, materials, panicked, ramp, rampStart>>

update_camera_settings ==
    /\ "update_camera_settings" \in Pending
    /\ ran' = ran \cup {"update_camera_settings"}
    /\ IF Single(cameras)
       THEN /\ cameras' = << CameraSettingsEdit(cameras[1], pressed, just_pressed) >>
            /\ flips' = IF cameras'[1].enabled # cameras[1].enabled
                        THEN flips + 1 ELSE flips
            /\ UNCHANGED panicked
       ELSE /\ panicked' = TRUE
            /\ UNCHANGED <<cameras, flips>>
    /\ UNCHANGED <<schedule, frame, commands, scene, lights, texts, meshes,
                   materials, input, start, hold, ramp, rampStart>>

update_text ==
    /\ "update_text" \in Pending
    /\ ran' = ran \cup {"update_text"}
    /\ IF Cardinality(InfoTexts(texts)) = 1 /\ Single(cameras)
       THEN /\ texts' = UpdateTextOn(texts, cameras[1])
            /\ UNCHANGED panicked
       ELSE /\ panicked' = TRUE
            /\ UNCHANGED texts
    /\ UNCHANGED <<schedule, frame, commands, cameras, scene, lights, meshes,
                   materials, input, observers>>

run_freecamera_controller ==
    /\ "run_freecamera_controller" \in Pending
    /\ ran' = ran \cup {"run_freecamera_controller"}
    /\ IF Single(cameras)
       THEN \E c \in ControllerOutcomes(cameras[1]) : cameras' = << c >>
       ELSE UNCHANGED cameras
    /\ UNCHANGED <<schedule, frame, commands, scene, lights, texts, meshes,
                   materials, input, panicked, observers>>

\* the key sets a frame's snapshot is drawn from: for the three fields
\* together none, the decrease keys, the increase keys or both, with or
\* without B
DecreaseKeys == {"KeyZ", "KeyC", "KeyF"}

IncreaseKeys == {"KeyX", "KeyV", "KeyG"}

TuningChords == {{}, DecreaseKeys, IncreaseKeys, DecreaseKeys \cup IncreaseKeys}

Chords == TuningChords \cup {c \cup {"KeyB"} : c \in TuningChords}

Next ==
    \/ spawn_camera
    \/ spawn_lights
    \/ spawn_world
    \/ spawn_text
    \/ EndSchedule
    \/ \E keys \in Chords : BeginFrame(keys)
    \/ update_camera_settings
    \/ update_text
    \/ run_freecamera_controller

Spec == Init /\ [][Next]_vars

-----------------------------------------------------------------------------
(* the tuning loop alone, over many frames: the program after startup, with
   update_camera_settings the only system followed *)

InitTuning ==
    /\ schedule = "Update"
    /\ ran = {}
    /\ frame = 0
    /\ commands = << >>
    /\ cameras = BundlesOf(spawn_camera_commands)
    /\ scene = BundlesOf(spawn_world_commands(WorldHandles(0, 0)))
    /\ lights = BundlesOf(spawn_lights_commands)
    /\ texts = BundlesOf(spawn_text_commands(CameraBundle))
    /\ meshes = WorldMeshes
    /\ materials = WorldMaterials
    /\ pressed = {}
    /\ just_pressed = {}
    /\ panicked = FALSE
    /\ start = << >>
    /\ hold = 0
    /\ flips = 0
    /\ ramp = 0
    /\ rampStart = << >>

RECURSIVE StepsAbove(_, _, _)
\* v after n increases
StepsAbove(v, step, n) ==
    IF n = 0 THEN v ELSE StepsAbove(F32Add(v, step), step, n - 1)

\* the range of values in which the increase keys are still explored
WithinRange(cam) ==
    /\ cam.sensitivity <= StepsAbove(SensitivityInit, SensitivityStep, MaxAbove)
    /\ cam.friction <= StepsAbove(FrictionInit, FrictionStep, MaxAbove)
    /\ cam.scroll_factor <= StepsAbove(ScrollFactorDefault, ScrollStep, MaxAbove)

\* every increase key is held and no decrease key
IncreaseOnly(keys) == IncreaseKeys \subseteq keys /\ keys \cap DecreaseKeys = {}

BeginTuningFrame(keys) ==
    /\ schedule = "Update"
    /\ ~panicked
    /\ frame = 0 \/ "update_camera_settings" \in ran
    /\ Single(cameras)
    /\ keys \cap IncreaseKeys # {} => WithinRange(cameras[1])
    /\ frame' = 1
    /\ ran' = {}
    /\ pressed' = keys
    /\ just_pressed' = keys \ pressed
    /\ start' = cameras
    /\ ramp' = IF ~IncreaseOnly(keys) THEN 0
               ELSE IF ramp >= 1 /\ ramp < MaxRamp THEN ramp + 1 ELSE 1
    /\ rampStart' = IF ~IncreaseOnly(keys) THEN << >>
                    ELSE IF ramp >= 1 /\ ramp < MaxRamp THEN rampStart
                    ELSE cameras
    /\ UNCHANGED <<schedule, commands, world, panicked, hold, flips>>

NextTuning ==
    \/ \E keys \in TuningChords : BeginTuningFrame(keys)
    \/ update_camera_settings

SpecTuning == InitTuning /\ [][NextTuning]_vars

-----------------------------------------------------------------------------
(* what the properties speak of *)

\* the frame's systems have all run
FrameDone == schedule = "Update" /\ frame >= 1 /\ Registered("Update") \subseteq ran

\* update_camera_settings has run in the current frame
Tuned == schedule = "Update" /\ frame >= 1 /\ "update_camera_settings" \in ran

\* the fields the keys tune, with their step and floor
Fields ==
    { [name |-> "sensitivity", step |-> SensitivityStep, floor |-> SensitivityFloor],
      [name |-> "friction", step |-> FrictionStep, floor |-> FrictionFloor],
      [name |-> "scroll_factor", step |-> ScrollStep, floor |-> ScrollFloor] }

Get(cam, f) ==
    IF f.name = "sensitivity" THEN cam.sensitivity
    ELSE IF f.name = "friction" THEN cam.friction
    ELSE cam.scroll_factor

RECURSIVE F32Reduce(_, _)
F32Reduce(e, s) ==
    IF s >= 8 * F32CarryBit THEN F32Reduce(e + 1, ShiftRightSticky(s, 1))
    ELSE F32Round(e, s)

\* n * x in f32, n a small natural number and x a normal magnitude
F32Times(n, x) ==
    IF n = 0 \/ x = 0 THEN 0 ELSE F32Reduce(F32Exp(x), F32Sig(x) * n * 8)

\* the number of f32 values from one non-negative float to another
UlpDistance(a, b) == F32Abs(a - b)

\* 65536.0
F32TwoTo16 == 143 * F32HiddenBit

FloorObjects == {i \in DOMAIN scene : meshes[scene[i].mesh].shape = "Plane3d"}

SkyObjects == {i \in DOMAIN scene : meshes[scene[i].mesh].shape = "Circle"}

ColumnObjects == {i \in DOMAIN scene : meshes[scene[i].mesh].shape = "Cylinder"}

TextureBacked(m) == m.base_color_texture # "None"

HasUvScale(m) == m.uv_transform # Affine2Identity

ColumnsShareHandles ==
    /\ \A i, j \in ColumnObjects :
          scene[i].mesh = scene[j].mesh /\ scene[i].material = scene[j].material
    /\ \A i \in ColumnObjects :
          materials[scene[i].material].base_color_texture = "textures/marble.png"

-----------------------------------------------------------------------------
(* properties *)

\* C1: whatever keys are held over whatever number of frames, sensitivity
\* stays >= 0.005, friction >= 0.0 and scroll_factor >= 0.02: a decrease at
\* or near the floor saturates at the floor
C1_FloorsHold ==
    \A i \in DOMAIN cameras : \A f \in Fields : Get(cameras[i], f) >= f.floor

\* the decrease keys are held in a frame that began with all three fields on
\* their floors, and the fields are still there
C1_SaturatedAtFloors ==
    /\ Tuned
    /\ DecreaseKeys \subseteq pressed
    /\ pressed \cap IncreaseKeys = {}
    /\ \A f \in Fields : Get(start[1], f) = f.floor /\ Get(cameras[1], f) = f.floor

\* C2: enabled is negated exactly once per press edge of B, in the frame of
\* the edge, however many frames B stays held, and is never changed by a
\* frame without the edge
C2_ToggleOncePerEdge ==
    (schedule = "Update" /\ frame >= 1 /\ Single(cameras) /\ Single(start)) =>
        /\ cameras[1].enabled =
              (IF "KeyB" \in just_pressed /\ "update_camera_settings" \in ran
               THEN ~start[1].enabled ELSE start[1].enabled)
        /\ "KeyB" \in pressed =>
              flips = (IF hold = 1 /\ "update_camera_settings" \notin ran
                       THEN 0 ELSE 1)

\* B has been held for MaxHold frames and enabled was negated once
C2_HeldManyFramesOneFlip ==
    /\ Tuned
    /\ hold = MaxHold
    /\ "KeyB" \in pressed
    /\ "KeyB" \notin just_pressed
    /\ flips = 1

\* C3 as stated: after N consecutive frames with only the increase keys held
\* every field is its value before the run plus exactly N times its step
C3_ExactlyNSteps ==
    (Tuned /\ ramp >= 1) =>
        \A f \in Fields :
            Get(cameras[1], f) = F32Add(Get(rampStart[1], f), F32Times(ramp, f.step))

\* C3 as amended: every such frame strictly increases every field (below
\* 65536 no increase is lost and none is clamped), and after N frames the
\* field is within N + 2 f32 values of its value before the run plus N
\* times the step
C3_NStepsUpToRounding ==
    (Tuned /\ ramp >= 1) =>
        \A f \in Fields :
            /\ Get(start[1], f) < F32TwoTo16 => Get(cameras[1], f) > Get(start[1], f)
            /\ UlpDistance(Get(cameras[1], f),
                           F32Add(Get(rampStart[1], f), F32Times(ramp, f.step)))
                  <= ramp + 2

\* a run of MaxRamp increase-only frames has ended off the exact value
C3_RunWithDrift ==
    /\ Tuned
    /\ ramp = MaxRamp
    /\ \A f \in Fields :
          Get(cameras[1], f) # F32Add(Get(rampStart[1], f), F32Times(ramp, f.step))

\* C4: when a frame ends, the status text shows the configuration and the
\* enabled flag as they are after that frame's key edits
C4_TextShowsThisFramesEdits ==
    (FrameDone /\ ~panicked) =>
        \E i \in InfoTexts(texts) :
            \E v \in {cameras[1].velocity, start[1].velocity} :
                texts[i].text = InfoTextOf([cameras[1] EXCEPT !.velocity = v])

C6_DisabledFreezesMovementOnly ==
    (schedule = "Update" /\ frame >= 1 /\ Single(cameras) /\ Single(start)
        /\ ~start[1].enabled /\ "KeyB" \notin just_pressed) =>
        /\ cameras[1].translation = start[1].translation
        /\ cameras[1].velocity = start[1].velocity
        /\ (Tuned /\ IncreaseOnly(pressed)) =>
              \A f \in Fields : Get(cameras[1], f) > Get(start[1], f)
        /\ (Tuned /\ DecreaseKeys \subseteq pressed /\ pressed \cap IncreaseKeys = {}) =>
              \A f \in Fields :
                  Get(cameras[1], f) < Get(start[1], f) \/ Get(cameras[1], f) = f.floor

\* a camera that had moved stays put through a whole disabled frame in which
\* the increase keys raise its fields
C6_FrozenWhileTuned ==
    /\ FrameDone
    /\ ~start[1].enabled
    /\ "KeyB" \notin just_pressed
    /\ IncreaseOnly(pressed)
    /\ start[1].translation # CameraBundle.translation
    /\ cameras[1].translation = start[1].translation
    /\ cameras[1].sensitivity > start[1].sensitivity

\* C7: a run of update_text sets the status text to the format of the
\* camera as it is, and changes no camera field, no other text and no scene
\* object; the instructions text never changes once it exists
C7_UpdateTextWritesOnlyStatus ==
    [][ /\ "update_text" \in (ran' \ ran) =>
              /\ cameras' = cameras
              /\ scene' = scene
              /\ DOMAIN texts' = DOMAIN texts
              /\ \A i \in DOMAIN texts :
                    texts'[i].text = (IF i \in InfoTexts(texts)
                                      THEN InfoTextOf(cameras[1])
                                      ELSE texts[i].text)
        /\ \A i \in DOMAIN texts :
              texts[i].text = InstructionsText =>
                  (i \in DOMAIN texts' /\ texts'[i] = texts[i])
      ]_vars

\* update_text has written the status of a camera whose sensitivity was
\* tuned, and the instructions are as spawned
C7_StatusWrittenAfterTuning ==
    /\ FrameDone
    /\ cameras[1].sensitivity # SensitivityInit
    /\ \E i \in InfoTexts(texts) : texts[i].text = InfoTextOf(cameras[1])
    /\ \E i \in DOMAIN texts : texts[i].text = InstructionsText

\* C8: the scene is assembled once, before the first frame, and no frame
\* adds, removes or moves an object or an asset
C8_SceneAssembledOnce ==
    /\ [][schedule = "Update" =>
            (scene' = scene /\ meshes' = meshes /\ materials' = materials)]_vars
    /\ [](schedule = "Update" =>
            (Cardinality(FloorObjects) = 1 /\ Cardinality(SkyObjects) = 1))

\* frames with keys held and a moving camera have run over the whole scene
C8_FramesOverAssembledScene ==
    /\ FrameDone
    /\ frame = MaxFrames
    /\ pressed # {}
    /\ cameras[1].translation # CameraBundle.translation
    /\ Len(scene) = Len(spawn_world_commands(WorldHandles(0, 0)))

\* C9 as stated: floor and skydome both carry a texture-backed material with
\* an explicit UV scale, and the columns share one mesh and one marble
\* material
C9_FloorAndSkyUvScaled ==
    schedule = "Update" =>
        /\ \A i \in FloorObjects \cup SkyObjects :
              /\ TextureBacked(materials[scene[i].material])
              /\ HasUvScale(materials[scene[i].material])
        /\ ColumnsShareHandles

\* C9 as amended: the floor carries a texture-backed material with an
\* explicit UV scale; the skydome carries a texture-backed material with the
\* default UV transform; the columns share one mesh and one marble material
C9_FloorUvScaledSkyDefault ==
    schedule = "Update" =>
        /\ \A i \in FloorObjects :
              /\ TextureBacked(materials[scene[i].material])
              /\ HasUvScale(materials[scene[i].material])
        /\ \A i \in SkyObjects :
              /\ TextureBacked(materials[scene[i].material])
              /\ ~HasUvScale(materials[scene[i].material])
        /\ ColumnsShareHandles

\* the assembled scene holds a floor, a skydome and the fourteen columns
C9_SceneAssembled ==
    /\ schedule = "Update"
    /\ Cardinality(FloorObjects) = 1
    /\ Cardinality(SkyObjects) = 1
    /\ Cardinality(ColumnObjects) = 14

\* C10: with both keys of a field held the field ends the frame unchanged
\* when it began at or above floor + step, and at floor + step when it began
\* below that, the floor included
C10_BothKeysHeld ==
    (Tuned /\ (DecreaseKeys \cup IncreaseKeys) \subseteq pressed) =>
        \A f \in Fields :
            Get(cameras[1], f) =
                (IF Get(start[1], f) >= F32Add(f.floor, f.step)
                 THEN Get(start[1], f) ELSE F32Add(f.floor, f.step))

\* both keys are held in a frame that began on the floors, and the fields
\* have risen by a step
C10_BothKeysAtFloor ==
    /\ Tuned
    /\ (DecreaseKeys \cup IncreaseKeys) \subseteq pressed
    /\ \A f \in Fields :
          Get(start[1], f) = f.floor /\ Get(cameras[1], f) = F32Add(f.floor, f.step)

=============================================================================
